---------------------------- MODULE Spec2Model ----------------------------
(***************************************************************************)
(* A model of backend/size_sorter.py: the size canonicalizer and ranker,   *)
(* the batch sort and renumbering of process_data, the truncate-and-       *)
(* reinsert transaction on the size_records table, and the read and        *)
(* export handlers.                                                         *)
(*                                                                         *)
(* A Python str is a sequence of one-character strings, so that upper(),   *)
(* strip(), endswith(), count(), isdigit(), int() and the f-string         *)
(* formatting are computed character by character.  The columns of         *)
(* SizeRecord are written seq_no, name and size here (lines 37-39 of the    *)
(* source give them in Chinese); created-at timestamps are left out.       *)
(***************************************************************************)
EXTENDS Integers, Sequences, FiniteSets, TLC

VARIABLES
    token,        \* pure-function runs: the raw size token under test
    converted,    \* convert_size(token), once computed
    reconverted,  \* convert_size(converted), once computed
    ordinal,      \* <<clean_and_order_size(token)>>, once computed; <<>> before
    input_data,   \* the body of the latest /process-data request
    response,     \* the latest HTTP response
    table,        \* the committed rows of size_records
    id_seq,       \* the next value of the table's identity sequence
    lastBatch     \* history: the data rows of the latest 200 answer of process_data

vars == <<token, converted, reconverted, ordinal, input_data, response,
          table, id_seq, lastBatch>>

(***************************************************************************)
(* Bounds of the model.                                                    *)
(***************************************************************************)
MaxTokenLen == 4
MaxRows == 3
MaxCols == 3
StoreMaxRows == 2

None == <<"None">>

(***************************************************************************)
(* Characters and Python's str methods.                                    *)
(***************************************************************************)
Digits == <<"0", "1", "2", "3", "4", "5", "6", "7", "8", "9">>
LowerCase == <<"a", "b", "c", "d", "e", "f", "g", "h", "i", "j", "k", "l", "m",
               "n", "o", "p", "q", "r", "s", "t", "u", "v", "w", "x", "y", "z">>
UpperCase == <<"A", "B", "C", "D", "E", "F", "G", "H", "I", "J", "K", "L", "M",
               "N", "O", "P", "Q", "R", "S", "T", "U", "V", "W", "X", "Y", "Z">>
Whitespace == {" "}

IndexOf(seq, x) == CHOOSE i \in 1..Len(seq) : seq[i] = x /\ \A j \in 1..(i - 1) : seq[j] # x

Contains(seq, x) == \E i \in 1..Len(seq) : seq[i] = x

\* ord(c) for the characters the model uses
CodePoint(c) ==
    IF Contains(Digits, c) THEN 47 + IndexOf(Digits, c)
    ELSE IF Contains(UpperCase, c) THEN 64 + IndexOf(UpperCase, c)
    ELSE IF Contains(LowerCase, c) THEN 96 + IndexOf(LowerCase, c)
    ELSE 32

upper_char(c) == IF Contains(LowerCase, c) THEN UpperCase[IndexOf(LowerCase, c)] ELSE c

\* str.upper()
upper(s) == [i \in 1..Len(s) |-> upper_char(s[i])]

RECURSIVE lstrip(_)
lstrip(s) == IF s # <<>> /\ Head(s) \in Whitespace THEN lstrip(Tail(s)) ELSE s

RECURSIVE rstrip(_)
rstrip(s) ==
    IF s # <<>> /\ s[Len(s)] \in Whitespace THEN rstrip(SubSeq(s, 1, Len(s) - 1)) ELSE s

\* str.strip()
strip(s) == rstrip(lstrip(s))

\* str.endswith('XL')
endswith_XL(s) == Len(s) >= 2 /\ s[Len(s) - 1] = "X" /\ s[Len(s)] = "L"

\* str.count('X')
count_X(s) == Cardinality({i \in 1..Len(s) : s[i] = "X"})

\* str.isdigit(): false for the empty string
isdigit(s) == s # <<>> /\ \A i \in 1..Len(s) : Contains(Digits, s[i])

\* size[:-2]
drop_last2(s) == IF Len(s) > 2 THEN SubSeq(s, 1, Len(s) - 2) ELSE <<>>

\* int(s) of a digit string
RECURSIVE int(_)
int(s) == IF s = <<>> THEN 0 ELSE 10 * int(SubSeq(s, 1, Len(s) - 1)) + (IndexOf(Digits, s[Len(s)]) - 1)

\* str(n) of a natural number, as in f'{n}'
RECURSIVE format_int(_)
format_int(n) == IF n < 10 THEN <<Digits[n + 1]>> ELSE format_int(n \div 10) \o <<Digits[(n % 10) + 1]>>

\* f'{n}XL'
format_XL(n) == format_int(n) \o <<"X", "L">>

max(a, b) == IF a >= b THEN a ELSE b

(***************************************************************************)
(* The reference ordering and the two size functions.                      *)
(***************************************************************************)
SIZE_ORDER == <<
    <<"1", "0", "0">>, <<"1", "1", "0">>, <<"1", "2", "0">>, <<"1", "3", "0">>,
    <<"1", "4", "0">>, <<"1", "5", "0">>, <<"X", "S">>, <<"S">>, <<"M">>, <<"L">>,
    <<"X", "L">>, <<"2", "X", "L">>, <<"3", "X", "L">>, <<"4", "X", "L">>,
    <<"5", "X", "L">>, <<"6", "X", "L">>, <<"7", "X", "L">>, <<"8", "X", "L">>,
    <<"9", "X", "L">>, <<"1", "0", "X", "L">> >>

\* `x in SIZE_ORDER`
in_SIZE_ORDER(s) == Contains(SIZE_ORDER, s)

\* SIZE_ORDER.index(x): Python counts from 0
index_SIZE_ORDER(s) == IndexOf(SIZE_ORDER, s) - 1

\* A ranker whose default is -1 (str.find's "not found") instead of len(SIZE_ORDER)
clean_and_order_size_NotFound(raw) ==
    LET size == strip(upper(raw)) IN
    IF in_SIZE_ORDER(size) THEN index_SIZE_ORDER(size) ELSE -1

clean_and_order_size(raw) ==
    LET size == strip(upper(raw))
        x_count == count_X(size)
        by_count == format_XL(max(1, x_count))
        by_digits == format_XL(int(drop_last2(size)))
    IN  IF in_SIZE_ORDER(size) THEN index_SIZE_ORDER(size)
        ELSE IF endswith_XL(size) /\ x_count > 0 /\ in_SIZE_ORDER(by_count)
             THEN index_SIZE_ORDER(by_count)
        ELSE IF isdigit(drop_last2(size)) /\ endswith_XL(size) /\ in_SIZE_ORDER(by_digits)
             THEN index_SIZE_ORDER(by_digits)
        ELSE Len(SIZE_ORDER)

\* A canonicalizer that trims only after it has looked for the "XL" ending
convert_size_StripLate(raw) ==
    LET size == upper(raw) IN
    IF endswith_XL(size) /\ count_X(size) > 1 THEN format_XL(count_X(size)) ELSE strip(size)

convert_size(raw) ==
    LET size == strip(upper(raw))
        x_count == count_X(size)
    IN  IF endswith_XL(size) /\ x_count > 1 THEN format_XL(x_count) ELSE size

(***************************************************************************)
(* Runs of the two pure functions on one raw token.                        *)
(***************************************************************************)
TokenAlphabet == {" ", "x", "l", "X", "L", "s", "0", "2"}

\* every str of at most n characters of the alphabet
Strings(alphabet, n) == UNION {[1..k -> alphabet] : k \in 0..n}

Range(seq) == {seq[i] : i \in 1..Len(seq)}

Tokens == Strings(TokenAlphabet, MaxTokenLen) \cup Range(SIZE_ORDER)

NoRequest == [data |-> <<>>, rows_per_column |-> 0]
NoResponse == [handler |-> "none", status_code |-> 0]

InitSize ==
    /\ token \in Tokens
    /\ converted = None
    /\ reconverted = None
    /\ ordinal = <<>>
    /\ input_data = NoRequest
    /\ response = NoResponse
    /\ table = {}
    /\ id_seq = 1
    /\ lastBatch = <<>>

Convert ==
    /\ converted = None
    /\ converted' = convert_size(token)
    /\ UNCHANGED <<token, reconverted, ordinal, input_data, response, table, id_seq, lastBatch>>

Reconvert ==
    /\ converted # None
    /\ reconverted = None
    /\ reconverted' = convert_size(converted)
    /\ UNCHANGED <<token, converted, ordinal, input_data, response, table, id_seq, lastBatch>>

Rank ==
    /\ ordinal = <<>>
    /\ ordinal' = <<clean_and_order_size(token)>>
    /\ UNCHANGED <<token, converted, reconverted, input_data, response, table, id_seq, lastBatch>>

NextSize == Convert \/ Reconvert \/ Rank

SpecSize == InitSize /\ [][NextSize]_vars


(***************************************************************************)
(* process_data: validation, the sort and the renumbering (lines 154-178). *)
(* A grid is a sequence of rows, a row a sequence of cells, a cell a str   *)
(* (line 158 stringifies every cell first).  Row 1 is the header.  Every   *)
(* row of a grid is as wide as its header.                                 *)
(***************************************************************************)
\* Python's < on two str: by code point, a proper prefix first
RECURSIVE str_less(_, _)
str_less(a, b) ==
    IF b = <<>> THEN FALSE
    ELSE IF a = <<>> THEN TRUE
    ELSE IF CodePoint(Head(a)) # CodePoint(Head(b)) THEN CodePoint(Head(a)) < CodePoint(Head(b))
    ELSE str_less(Tail(a), Tail(b))

\* `not input_data.data or len(input_data.data) < 2` with the header row forgotten
too_few_rows_HeaderOnly(data) == data = <<>> \/ Len(data) < 1

\* line 154
too_few_rows(data) == data = <<>> \/ Len(data) < 2

\* len(df.columns) of pd.DataFrame(data[1:], columns=data[0])
n_columns(data) == Len(data[1])

\* line 163
too_few_columns(data) == n_columns(data) < 2

\* lines 161-172: the first two columns as name and raw size, with the three derived columns
frame(data) ==
    [i \in 1..(Len(data) - 1) |->
        LET name == data[i + 1][1]
            size == convert_size(data[i + 1][2])
        IN  [name |-> name, size |-> size,
             size_order |-> clean_and_order_size(size), name_len |-> Len(name)]]

\* the order of sort_values(['size_order', 'name_len', 'name']) on two rows
key_less(r1, r2) ==
    \/ r1.size_order < r2.size_order
    \/ r1.size_order = r2.size_order /\ r1.name_len < r2.name_len
    \/ r1.size_order = r2.size_order /\ r1.name_len = r2.name_len /\ str_less(r1.name, r2.name)

\* a row put into an ordered frame behind every row that is not greater (a stable sort)
insert_sorted(sorted, r) ==
    LET p == Cardinality({i \in 1..Len(sorted) : ~key_less(r, sorted[i])})
    IN  SubSeq(sorted, 1, p) \o <<r>> \o SubSeq(sorted, p + 1, Len(sorted))

\* A sort on size_order and name alone
RECURSIVE sort_values_NoLength(_)
sort_values_NoLength(rows) ==
    IF rows = <<>> THEN <<>>
    ELSE LET sorted == sort_values_NoLength(SubSeq(rows, 1, Len(rows) - 1))
             r == rows[Len(rows)]
             less(a, b) == \/ a.size_order < b.size_order
                           \/ a.size_order = b.size_order /\ str_less(a.name, b.name)
             p == Cardinality({i \in 1..Len(sorted) : ~less(r, sorted[i])})
         IN  SubSeq(sorted, 1, p) \o <<r>> \o SubSeq(sorted, p + 1, Len(sorted))

\* A sort that also drops a row equal to one it already holds (drop_duplicates)
RECURSIVE sort_values_Dedup(_)
sort_values_Dedup(rows) ==
    IF rows = <<>> THEN <<>>
    ELSE LET sorted == sort_values_Dedup(SubSeq(rows, 1, Len(rows) - 1))
             r == rows[Len(rows)]
         IN  IF \E i \in 1..Len(sorted) : sorted[i] = r THEN sorted ELSE insert_sorted(sorted, r)

\* line 173: df.sort_values on several columns is a stable lexicographic sort
RECURSIVE sort_values(_)
sort_values(rows) ==
    IF rows = <<>> THEN <<>>
    ELSE insert_sorted(sort_values(SubSeq(rows, 1, Len(rows) - 1)), rows[Len(rows)])

\* range(len(df)) in place of range(1, len(df) + 1)
assign_seq_no_FromZero(rows) ==
    [i \in 1..Len(rows) |-> [seq_no |-> i - 1, name |-> rows[i].name, size |-> rows[i].size]]

\* lines 174-178: the sort keys dropped, seq_no = 1..N in the sorted order
assign_seq_no(rows) ==
    [i \in 1..Len(rows) |-> [seq_no |-> i, name |-> rows[i].name, size |-> rows[i].size]]

\* lines 161-178
sorted_frame(data) == assign_seq_no(sort_values(frame(data)))

OutputHeader == <<"seq_no", "name", "size">>

\* lines 196-197: df.values.tolist() under df.columns.tolist()
processed_data(df) == <<OutputHeader>> \o [i \in 1..Len(df) |-> <<df[i].seq_no, df[i].name, df[i].size>>]

(***************************************************************************)
(* The database: the size_records table behind one session per request.    *)
(* A session works on a copy of the committed state; commit installs the   *)
(* copy, rollback discards it.  PostgreSQL's TRUNCATE ... RESTART IDENTITY *)
(* is part of the transaction like any other statement.                    *)
(***************************************************************************)
Store(rows, next_id) == [rows |-> rows, next_id |-> next_id]

\* A request that leaves the stored rows in place
truncate_NoOp(working) == working

\* line 183
truncate(working) == Store({}, 1)

\* lines 185-191, flushed by the commit of line 193: the first n rows of df inserted
RECURSIVE insert_rows(_, _, _)
insert_rows(working, df, n) ==
    IF n = 0 THEN working
    ELSE LET before == insert_rows(working, df, n - 1)
             record == [id |-> before.next_id, seq_no |-> df[n].seq_no,
                        name |-> df[n].name, size |-> df[n].size]
         IN  Store(before.rows \cup {record}, before.next_id + 1)

\* A store whose statements take effect one by one, outside any transaction
rollback_Autocommit(committed, working) == working

\* line 50
rollback(committed, working) == committed

\* Where a database fault may strike the transaction of process_data on n rows:
\* at the TRUNCATE, at the insert of row k while the commit flushes, or at the commit
NoFault == [at |-> "none", k |-> 0]
Faults(n) ==
    {NoFault, [at |-> "truncate", k |-> 0], [at |-> "commit", k |-> 0]}
        \cup {[at |-> "insert", k |-> k] : k \in 1..n}

\* lines 181-194 inside get_session (lines 44-52): the state the session leaves
\* committed, and whether it raised.  The commit of line 48 follows the commit of
\* line 193 with no statement in between, so it has nothing to write and no fault point.
persist(committed, df, fault) ==
    LET truncated == truncate(committed)
        inserted(n) == insert_rows(truncated, df, n)
    IN  CASE fault.at = "truncate" -> [raised |-> TRUE, store |-> rollback(committed, committed)]
          [] fault.at = "insert" -> [raised |-> TRUE, store |-> rollback(committed, inserted(fault.k - 1))]
          [] fault.at = "commit" -> [raised |-> TRUE, store |-> rollback(committed, inserted(Len(df)))]
          [] OTHER -> [raised |-> FALSE, store |-> inserted(Len(df))]

(***************************************************************************)
(* Exceptions and the handlers' except clauses.                            *)
(***************************************************************************)
ValueError(msg) == [exc |-> "ValueError", status_code |-> 0, detail |-> msg]
DBAPIError == [exc |-> "DBAPIError", status_code |-> 0, detail |-> <<"database">>]
HTTPException(code, msg) == [exc |-> "HTTPException", status_code |-> code, detail |-> msg]

\* `except Exception` catches every class above: each derives from Exception
IsException(e) == e.exc \in {"ValueError", "DBAPIError", "HTTPException"}

Failure(handler, http) == [handler |-> handler, status_code |-> http.status_code, detail |-> http.detail]

\* lines 204-209: what reaches the client when process_data raised e
process_data_except(e) ==
    IF e.exc = "ValueError" THEN HTTPException(400, e.detail)
    ELSE HTTPException(500, e.detail)

\* lines 229-231 and 300-302: every exception, an HTTPException too, becomes a 500
read_except(e) == IF IsException(e) THEN HTTPException(500, e.detail) ELSE e

(***************************************************************************)
(* The handlers.                                                           *)
(***************************************************************************)
Frame == <<token, converted, reconverted, ordinal>>

\* POST /process-data, lines 149-209
process_data(request, fault) ==
    LET data == request.data IN
    /\ input_data' = request
    /\ IF too_few_rows(data)
       THEN /\ response' = Failure("process_data",
                               process_data_except(ValueError(<<"fewer than 2 rows">>)))
            /\ UNCHANGED <<table, id_seq, lastBatch>>
       ELSE IF too_few_columns(data)
       THEN /\ response' = Failure("process_data",
                               process_data_except(ValueError(<<"fewer than 2 columns", n_columns(data)>>)))
            /\ UNCHANGED <<table, id_seq, lastBatch>>
       ELSE LET df == sorted_frame(data)
                done == persist(Store(table, id_seq), df, fault)
            IN  /\ table' = done.store.rows
                /\ id_seq' = done.store.next_id
                /\ IF done.raised
                   THEN /\ response' = Failure("process_data", process_data_except(DBAPIError))
                        /\ UNCHANGED lastBatch
                   ELSE /\ response' = [handler |-> "process_data", status_code |-> 200,
                                        processed_data |-> processed_data(df),
                                        rows_per_column |-> request.rows_per_column]
                        /\ lastBatch' = Tail(processed_data(df))
    /\ UNCHANGED Frame

\* select(SizeRecord).order_by(seq_no): every listing of the rows in seq_no order
list_all(rows) ==
    {l \in [1..Cardinality(rows) -> rows] :
        /\ \A i, j \in 1..Cardinality(rows) : i < j => l[i] # l[j] /\ l[i].seq_no <= l[j].seq_no}

\* GET /get-records, lines 211-231
get_records(failed) ==
    /\ IF failed
       THEN response' = Failure("get_records", read_except(DBAPIError))
       ELSE \E records \in list_all(table) :
                response' = [handler |-> "get_records", status_code |-> 200, records |-> records]
    /\ UNCHANGED <<input_data, table, id_seq, lastBatch>>
    /\ UNCHANGED Frame

Formats == {"csv", "excel", "pdf"}

\* GET /download/{format}, lines 233-302.  The HTTPException of line 299 is raised
\* inside the try of line 235, so it passes get_session's `except Exception`
\* (rollback, re-raise) and then the handler's own at line 300.
download_file(format, failed) ==
    /\ IF failed
       THEN response' = [format |-> format] @@ Failure("download_file", read_except(DBAPIError))
       ELSE \E records \in list_all(table) :
                LET data == <<OutputHeader>> \o
                            [i \in 1..Len(records) |->
                                <<records[i].seq_no, records[i].name, records[i].size>>]
                IN  IF format \in {"csv", "excel"}
                    THEN response' = [handler |-> "download_file", status_code |-> 200,
                                      format |-> format, data |-> data]
                    ELSE response' = [format |-> format] @@
                                     Failure("download_file",
                                             read_except(HTTPException(400, <<"unsupported format">>)))
    /\ UNCHANGED <<input_data, table, id_seq, lastBatch>>
    /\ UNCHANGED Frame

(***************************************************************************)
(* Requests.                                                               *)
(***************************************************************************)
HeaderCells == <<<<"n", "a", "m", "e">>, <<"s", "i", "z", "e">>, <<"n", "o", "t", "e">>>>
ExtraCell == <<"z">>

\* a row cut or padded to the given width
row_of_width(row, width) == [c \in 1..width |-> IF c <= Len(row) THEN row[c] ELSE ExtraCell]
header_of_width(width) == [c \in 1..width |-> IF c <= Len(HeaderCells) THEN HeaderCells[c] ELSE ExtraCell]

\* a header of the given width over the rows l[1], ..., l[n]
grid(width, n, l) == <<header_of_width(width)>> \o [i \in 1..n |-> row_of_width(l[i], width)]

InputData(data) == [data |-> data, rows_per_column |-> 10]

Amy == <<"A", "m", "y">>
Bob == <<"B", "o", "b">>
Bo == <<"B", "o">>

\* the (name, size) rows and the grid widths of the single-batch runs
BatchRows ==
    {<<n, s>> : n \in {Amy, Bob, Bo},
                s \in {<<" ", "s", " ">>, <<"x", "x", "x", "l">>, <<"0", "2", "X", "L">>, <<"F", "O", "O">>}}
BatchWidths == {0, 1, 2, MaxCols}

\* the (name, size) rows of the runs against the store
StoreRows == {<<Bob, <<"x", "x", "l">>>>, <<Amy, <<" ", "s", " ">>>>}

(***************************************************************************)
(* SpecBatch: one request, drawn at the start, against an empty table.     *)
(***************************************************************************)
InitBatch ==
    /\ token = <<>>
    /\ converted = None
    /\ reconverted = None
    /\ ordinal = <<>>
    /\ \/ input_data = InputData(<<>>)
       \/ \E width \in BatchWidths, n \in 0..MaxRows :
              \E l \in [1..n -> BatchRows] : input_data = InputData(grid(width, n, l))
    /\ response = NoResponse
    /\ table = {}
    /\ id_seq = 1
    /\ lastBatch = <<>>

ProcessBatch ==
    /\ response = NoResponse
    /\ \E fault \in Faults(Len(input_data.data) - 1) : process_data(input_data, fault)

NextBatch == ProcessBatch

SpecBatch == InitBatch /\ [][NextBatch]_vars

(***************************************************************************)
(* Spec: any sequence of requests to the three handlers.                   *)
(***************************************************************************)
Init ==
    /\ token = <<>>
    /\ converted = None
    /\ reconverted = None
    /\ ordinal = <<>>
    /\ input_data = NoRequest
    /\ response = NoResponse
    /\ table = {}
    /\ id_seq = 1
    /\ lastBatch = <<>>

ProcessData ==
    \/ process_data(InputData(<<>>), NoFault)
    \/ \E n \in 0..StoreMaxRows :
           \E l \in [1..n -> StoreRows], fault \in Faults(n) :
               process_data(InputData(grid(2, n, l)), fault)

GetRecords == \E failed \in BOOLEAN : get_records(failed)

DownloadFile == \E format \in Formats, failed \in BOOLEAN : download_file(format, failed)

Next == ProcessData \/ GetRecords \/ DownloadFile

Spec == Init /\ [][Next]_vars


(***************************************************************************)
(* Claims about the two size functions, checked under SpecSize.            *)
(***************************************************************************)
\* What the ranker does to its argument before any rule: str(size).upper().strip()
Normalized(s) == strip(upper(s))

\* The three rules of the ranker, each as "this token yields a member"
ExactMember(s) == \E i \in 1..Len(SIZE_ORDER) : SIZE_ORDER[i] = s
CountRuleMember(s) == endswith_XL(s) /\ ExactMember(format_XL(max(1, count_X(s))))
DigitRuleMember(s) ==
    /\ endswith_XL(s)
    /\ isdigit(drop_last2(s))
    /\ ExactMember(format_XL(int(drop_last2(s))))
DerivesMember(s) == ExactMember(s) \/ CountRuleMember(s) \/ DigitRuleMember(s)

RankedAsMember(s) == \A i \in 1..Len(SIZE_ORDER) : SIZE_ORDER[i] = s => ordinal = <<i - 1>>

\* C7 as stated: a member of the reference ordering ranks at its index, and a
\* token from which none of the three rules, applied to the token as given,
\* derives a member ranks at len(SIZE_ORDER).
C7_RankerOnTokenAsGiven ==
    ordinal # <<>> =>
        /\ RankedAsMember(token)
        /\ (~DerivesMember(token) => ordinal = <<Len(SIZE_ORDER)>>)

\* C7 (amended): a member of the reference ordering ranks at its index, and a
\* token from which none of the three rules, applied to the upper-cased and
\* trimmed token, derives a member ranks at len(SIZE_ORDER).
C7_RankerOnNormalizedToken ==
    ordinal # <<>> =>
        /\ RankedAsMember(token)
        /\ RankedAsMember(Normalized(token))
        /\ (~DerivesMember(Normalized(token)) => ordinal = <<Len(SIZE_ORDER)>>)

\* A zero-valued or out-of-range digit prefix: the digit rule is tried and derives nothing
C7_Witness ==
    /\ ordinal = <<Len(SIZE_ORDER)>>
    /\ endswith_XL(Normalized(token))
    /\ isdigit(drop_last2(Normalized(token)))
    /\ token # Normalized(token)

\* C8: canonicalizing a canonicalized token changes nothing:
\* convert_size(convert_size(x)) = convert_size(x) for every raw token x.
C8_ConvertIdempotent == reconverted # None => reconverted = converted

\* A padded, lower-case token whose X characters were collapsed into a count
C8_Witness ==
    /\ reconverted # None
    /\ token # Normalized(token)
    /\ converted # Normalized(token)

(***************************************************************************)
(* Claims about one processed batch, checked under SpecBatch.              *)
(***************************************************************************)
IsProcessed == response.handler = "process_data" /\ response.status_code = 200
IsAnswered == response.handler = "process_data"

\* the data rows of the answer, each <<seq_no, name, size>>, and of the request
OutRows == Tail(response.processed_data)
InRows == Tail(input_data.data)

\* a <= b for two str, stated position by position
LexLeq(a, b) ==
    \E k \in 0..Len(a) :
        /\ k <= Len(b)
        /\ \A i \in 1..k : a[i] = b[i]
        /\ \/ k = Len(a)
           \/ k < Len(b) /\ CodePoint(a[k + 1]) < CodePoint(b[k + 1])

CompositeKey(r) == <<clean_and_order_size(r[3]), Len(r[2]), r[2]>>

KeyLeq(k1, k2) ==
    \/ k1[1] < k2[1]
    \/ k1[1] = k2[1] /\ k1[2] < k2[2]
    \/ k1[1] = k2[1] /\ k1[2] = k2[2] /\ LexLeq(k1[3], k2[3])

\* C1: the data rows of a processed batch are in the order of the composite key
\* (ordinal of the canonical size, then name length, then name): each row's key
\* is at most the key of the row after it.
C1_SortedByCompositeKey ==
    IsProcessed =>
        \A i \in 1..(Len(OutRows) - 1) :
            KeyLeq(CompositeKey(OutRows[i]), CompositeKey(OutRows[i + 1]))

\* Bob, Amy, Bo of one size come back as Bo, Amy, Bob: length decides before the name
C1_Witness ==
    /\ IsProcessed
    /\ Len(InRows) = 3
    /\ <<InRows[1][1], InRows[2][1], InRows[3][1]>> = <<Bob, Amy, Bo>>
    /\ <<OutRows[1][2], OutRows[2][2], OutRows[3][2]>> = <<Bo, Amy, Bob>>
    /\ \A i \in 1..3 : OutRows[i][3] = <<"S">>

\* C3 as stated: a row whose canonical size is not in SIZE_ORDER has ordinal
\* len(SIZE_ORDER) and stands after every row whose canonical size is in SIZE_ORDER.
C3_NonMembersLast ==
    IsProcessed =>
        \A i \in 1..Len(OutRows) :
            ~ExactMember(OutRows[i][3]) =>
                /\ clean_and_order_size(OutRows[i][3]) = Len(SIZE_ORDER)
                /\ \A j \in 1..Len(OutRows) : ExactMember(OutRows[j][3]) => j < i

\* C3 (amended): a row whose canonical size is neither in SIZE_ORDER nor a digit
\* string before "XL" whose number n makes "nXL" a member (such as "02XL") has
\* ordinal len(SIZE_ORDER) and stands after every row whose canonical size is in
\* SIZE_ORDER.
C3_UnrecognizedLast ==
    IsProcessed =>
        \A i \in 1..Len(OutRows) :
            (~ExactMember(OutRows[i][3]) /\ ~DigitRuleMember(OutRows[i][3])) =>
                /\ clean_and_order_size(OutRows[i][3]) = Len(SIZE_ORDER)
                /\ \A j \in 1..Len(OutRows) : ExactMember(OutRows[j][3]) => j < i

\* "FOO" behind "3XL", with "02XL" ahead of "3XL", whatever the names
C3_Witness ==
    /\ IsProcessed
    /\ Len(OutRows) = 3
    /\ <<OutRows[1][3], OutRows[2][3], OutRows[3][3]>>
           = << <<"0", "2", "X", "L">>, <<"3", "X", "L">>, <<"F", "O", "O">> >>
    /\ <<OutRows[1][2], OutRows[2][2], OutRows[3][2]>> = <<Bob, Amy, Bo>>

\* C4: a request whose grid has fewer than 2 rows, or fewer than 2 columns, is
\* answered 400 with a message naming a deficiency the grid has, and never with
\* processed rows.
C4_Validation ==
    LET data == input_data.data
        few_rows == Len(data) < 2
        few_columns == Len(data) >= 1 /\ Len(data[1]) < 2
    IN  (IsAnswered /\ (few_rows \/ few_columns)) =>
            /\ response.status_code = 400
            /\ "processed_data" \notin DOMAIN response
            /\ \/ few_rows /\ response.detail = <<"fewer than 2 rows">>
               \/ few_columns /\ response.detail = <<"fewer than 2 columns", Len(data[1])>>

\* a header and data rows of one column: the column message, with the count
C4_Witness ==
    /\ IsAnswered
    /\ Len(input_data.data) = 3
    /\ response.status_code = 400
    /\ response.detail = <<"fewer than 2 columns", 1>>

Count(seq, x) == Cardinality({i \in 1..Len(seq) : seq[i] = x})

\* C10: a processed batch of N data rows comes back as N data rows whose
\* (name, size) pairs are, as a multiset, the (name, convert_size(raw size))
\* pairs of the first two columns of the request.
C10_RowsPreserved ==
    IsProcessed =>
        LET out == [i \in 1..Len(OutRows) |-> <<OutRows[i][2], OutRows[i][3]>>]
            in == [i \in 1..Len(InRows) |-> <<InRows[i][1], convert_size(InRows[i][2])>>]
        IN  /\ Len(out) = Len(in)
            /\ \A p \in Range(in) \cup Range(out) : Count(out, p) = Count(in, p)

\* three columns, the same row twice and a smaller row after them
C10_Witness ==
    /\ IsProcessed
    /\ Len(InRows) = 3
    /\ Len(input_data.data[1]) = 3
    /\ InRows[1] = <<Bo, <<"x", "x", "x", "l">>, ExtraCell>>
    /\ InRows[2] = InRows[1]
    /\ InRows[3] = <<Amy, <<" ", "s", " ">>, ExtraCell>>
    /\ OutRows[1] = <<1, Amy, <<"S">>>>
    /\ OutRows[2] = <<2, Bo, <<"3", "X", "L">>>>
    /\ OutRows[3] = <<3, Bo, <<"3", "X", "L">>>>

(***************************************************************************)
(* Claims about the stored records and the handlers, checked under Spec.   *)
(***************************************************************************)
Stored == {<<r.seq_no, r.name, r.size>> : r \in table}

\* C2: get_records returns exactly the records of the latest successfully
\* processed batch, in seq_no order, and the table holds nothing else.
C2_ReplaceSemantics ==
    /\ Stored = Range(lastBatch)
    /\ Cardinality(table) = Len(lastBatch)
    /\ (response.handler = "get_records" /\ response.status_code = 200) =>
           [i \in 1..Len(response.records) |->
               <<response.records[i].seq_no, response.records[i].name, response.records[i].size>>]
               = lastBatch

\* the two records of a stored batch read back after a later request was refused
C2_Witness ==
    /\ response.handler = "get_records"
    /\ response.status_code = 200
    /\ Len(response.records) = 2
    /\ response.records[1].name = Amy
    /\ response.records[2].name = Bob
    /\ Len(input_data.data) = 1

\* C5: a download in a format other than "csv" and "excel" is answered 400.
C5_UnsupportedFormatIs400 ==
    (response.handler = "download_file" /\ response.format \notin {"csv", "excel"}
        /\ response.detail = <<"unsupported format">>) => response.status_code = 400

\* C6: a process_data request whose transaction meets a database fault, at the
\* truncate, at any insert or at the commit, is answered 500 and leaves the
\* stored rows and the identity sequence as they were.
C6_AtomicReplace ==
    [][\A fault \in Faults(Len(input_data'.data) - 1) \ {NoFault} :
           (process_data(input_data', fault)
                /\ ~too_few_rows(input_data'.data) /\ ~too_few_columns(input_data'.data)) =>
               /\ response'.status_code = 500
               /\ table' = table
               /\ id_seq' = id_seq]_vars

\* a one-row batch failed while two rows were stored, and the two rows are still there
C6_Witness ==
    /\ IsAnswered
    /\ response.status_code = 500
    /\ Len(input_data.data) = 2
    /\ Cardinality(table) = 2

\* C9: the rows of a processed batch of N data rows carry 1, 2, ..., N in
\* their order, and the stored records carry exactly 1..N, each once,
\* whatever was stored before.
C9_SequenceNumbers ==
    /\ {r.seq_no : r \in table} = 1..Cardinality(table)
    /\ IsProcessed =>
           /\ Len(OutRows) = Len(InRows)
           /\ \A i \in 1..Len(OutRows) : OutRows[i][1] = i
           /\ Cardinality(table) = Len(InRows)
           /\ \A r \in table : OutRows[r.seq_no] = <<r.seq_no, r.name, r.size>>

\* two rows that the sort swapped, numbered 1 and 2 in the sorted order
C9_Witness ==
    /\ IsProcessed
    /\ Len(InRows) = 2
    /\ InRows[1][1] = Bob
    /\ OutRows[1] = <<1, Amy, <<"S">>>>
    /\ OutRows[2] = <<2, Bob, <<"2", "X", "L">>>>

=============================================================================
